---- MODULE Spec2Model ----
(***************************************************************************)
(* Model of scrapy_mongodb.MongoDBPipeline: the buffered insertion engine  *)
(* (process_item / close_spider / insert_item / _insert_one / _insert_many *)
(* / get_collection) together with configure and open_spider.              *)
(*                                                                         *)
(* Python values are modelled as tagged records so that None, '', numbers, *)
(* booleans, strings and lists keep the distinctions the code tests        *)
(* (is None, == '', truthiness).                                           *)
(***************************************************************************)
EXTENDS Integers, Sequences, FiniteSets, TLC

(***************************************************************************)
(* Bounds of the model.                                                    *)
(***************************************************************************)
MaxBuffer == 2
MaxThreshold == 2
MaxCalls == 3
MaxCloses == 2

(***************************************************************************)
(* Python values.                                                          *)
(***************************************************************************)
None == [t |-> "none"]
Str(s) == [t |-> "str", s |-> s]
IntV(i) == [t |-> "int", i |-> i]
BoolV(b) == [t |-> "bool", b |-> b]
ListV(l) == [t |-> "list", l |-> l]
DictV(d) == [t |-> "dict", d |-> d]

\* Python truth value of a value (if x: ...)
Truthy(v) ==
  CASE v.t = "none" -> FALSE
    [] v.t = "str"  -> v.s # ""
    [] v.t = "int"  -> v.i # 0
    [] v.t = "bool" -> v.b
    [] v.t = "list" -> v.l # <<>>
    [] v.t = "dict" -> DOMAIN v.d # {}

\* def not_set(string)
not_set(string) ==
  IF string = None THEN TRUE
  ELSE IF string = Str("") THEN TRUE
  ELSE FALSE

(***************************************************************************)
(* The pipeline instances of one process, the spiders' names and the       *)
(* items a spider yields.                                                  *)
(***************************************************************************)
Pipes == {1, 2}

Names == {"a", "default", "items"}

Items ==
  { [k |-> Str("1"), v |-> Str("1"), w |-> Str("5"), x |-> None],
    [k |-> Str("1"), v |-> Str("2"), w |-> Str(""),  x |-> Str("7")] }

(***************************************************************************)
(* Class attribute `config` (default options) and the options table of     *)
(* configure.  Connection options (uri, fsync, write_concern, database,    *)
(* replica_set) only reach MongoClient and are left out.                   *)
(***************************************************************************)
DefaultConfig ==
  [ collection           |-> Str("items"),
    separate_collections |-> BoolV(FALSE),
    unique_key           |-> None,
    buffer               |-> None,
    append_timestamp     |-> BoolV(FALSE),
    stop_on_duplicate    |-> IntV(0) ]

options ==
  [ collection           |-> "MONGODB_COLLECTION",
    separate_collections |-> "MONGODB_SEPARATE_COLLECTIONS",
    unique_key           |-> "MONGODB_UNIQUE_KEY",
    buffer               |-> "MONGODB_BUFFER_DATA",
    append_timestamp     |-> "MONGODB_ADD_TIMESTAMP",
    stop_on_duplicate    |-> "MONGODB_STOP_ON_DUPLICATE" ]

\* The settings a spider can be started with: every combination of batch size
\* and unique key, each with at most one of the three other options set.
AllSettings ==
  [ MONGODB_COLLECTION           : {None},
    MONGODB_SEPARATE_COLLECTIONS : {None, BoolV(TRUE)},
    MONGODB_UNIQUE_KEY           : {None, Str("k"), ListV(<<"k", "w">>)},
    MONGODB_BUFFER_DATA          : {None} \cup {IntV(n) : n \in 1..MaxBuffer},
    MONGODB_ADD_TIMESTAMP        : {None, BoolV(TRUE)},
    MONGODB_STOP_ON_DUPLICATE    : {None, IntV(-1)} \cup {IntV(n) : n \in 1..MaxThreshold} ]

SettingsSet ==
  { s \in AllSettings :
      \A x, y \in {"MONGODB_SEPARATE_COLLECTIONS", "MONGODB_ADD_TIMESTAMP",
                   "MONGODB_STOP_ON_DUPLICATE"} :
        (s[x] # None /\ s[y] # None) => x = y }

NoHandle == [id |-> 0, name |-> ""]
NoList == [has |-> FALSE, l |-> <<>>]
NoRet == [op |-> "none", pipe |-> 0, source |-> "", raised |-> "none",
          value |-> None, seen |-> <<>>, arg |-> None]

VARIABLES
  settings,             \* per instance: self.settings, the spider's settings (load_spider)
  config,               \* class attribute MongoDBPipeline.config (one dict per process)
  cls_item_buffer,      \* class attribute MongoDBPipeline.item_buffer (one list per process)
  item_buffer,          \* per instance: the instance attribute item_buffer, once assigned
  current_item,         \* per instance: current_item (class value 0 until first +=)
  duplicate_key_count,  \* per instance: duplicate_key_count (class value 0 until first +=)
  created_index,        \* per instance: created_index
  collections,          \* per instance: the dict self.collections
  stop_on_duplicate,    \* per instance: stop_on_duplicate (None before open_spider sets it)
  pc,                   \* per instance: "new", "open", "failed", "closed"
  store,                \* the documents upserts have left in each collection
  nextHandle,           \* identity of the next Collection object the driver hands out
  clock,                \* datetime.utcnow()
  issued,               \* the store operations issued by the last call, in order
  ret,                  \* the last call: its arguments and what it returned or raised
  indexLog,             \* the create_index(es) calls made: instance and Collection object
  stops,                \* per instance: crawler.engine.close_spider calls made
  rejections,           \* per instance: DuplicateKeyErrors caught
  writes,               \* per instance: insert_one/insert_many/update_one calls made
  calls,                \* per instance: process_item calls made
  closes,               \* per instance: close_spider calls made
  subm,                 \* per instance: the items process_item shaped, in order
  batches               \* per instance: the lists handed to insert_many, in order

vars == << settings, config, cls_item_buffer, item_buffer, current_item, duplicate_key_count,
           created_index, collections, stop_on_duplicate, pc, store, nextHandle,
           clock, issued, ret, indexLog, stops, rejections, writes, calls, closes,
           subm, batches >>

CollNames == Names \cup {DefaultConfig.collection.s}

NoSettings == [key \in {options[o] : o \in DOMAIN options} |-> None]

Init ==
  /\ settings = [p \in Pipes |-> NoSettings]
  /\ config = DefaultConfig
  /\ cls_item_buffer = <<>>
  /\ item_buffer = [p \in Pipes |-> NoList]
  /\ current_item = [p \in Pipes |-> 0]
  /\ duplicate_key_count = [p \in Pipes |-> 0]
  /\ created_index = [p \in Pipes |-> FALSE]
  /\ collections = [p \in Pipes |-> <<>>]
  /\ stop_on_duplicate = [p \in Pipes |-> None]
  /\ pc = [p \in Pipes |-> "new"]
  /\ store = [c \in CollNames |-> <<>>]
  /\ nextHandle = 1
  /\ clock = 0
  /\ issued = <<>>
  /\ ret = NoRet
  /\ indexLog = <<>>
  /\ stops = [p \in Pipes |-> 0]
  /\ rejections = [p \in Pipes |-> 0]
  /\ writes = [p \in Pipes |-> 0]
  /\ calls = [p \in Pipes |-> 0]
  /\ closes = [p \in Pipes |-> 0]
  /\ subm = [p \in Pipes |-> <<>>]
  /\ batches = [p \in Pipes |-> <<>>]

(***************************************************************************)
(* configure: the options loop and the illegal-configuration check.        *)
(***************************************************************************)
\* for key, setting in options: if not not_set(settings[setting]): config[key] = ...
merge_options(cfg, spider_settings) ==
  [key \in DOMAIN cfg |->
     IF ~ not_set(spider_settings[options[key]])
     THEN spider_settings[options[key]] ELSE cfg[key]]

illegal_config_never(cfg) == FALSE

\* if self.config['buffer'] and self.config['unique_key']: raise SyntaxError
illegal_config(cfg) == Truthy(cfg.buffer) /\ Truthy(cfg.unique_key)

\* if self.config['stop_on_duplicate']: ... if tmpValue < 0: raise SyntaxError
negative_stop(cfg) ==
  Truthy(cfg.stop_on_duplicate) /\ cfg.stop_on_duplicate.i < 0

(***************************************************************************)
(* open_spider: configure, connect, create the default handle, read the    *)
(* duplicate threshold.  configure writes into the class dict before it    *)
(* checks it, so a failed open leaves its options in `config`.             *)
(***************************************************************************)
open_spider(p, spider_settings) ==
  /\ pc[p] = "new"
  /\ settings' = [settings EXCEPT ![p] = spider_settings]
  /\ LET cfg == merge_options(config, spider_settings)
         h == [id |-> nextHandle, name |-> cfg.collection.s]
     IN /\ config' = cfg
        /\ IF illegal_config(cfg)
           THEN /\ pc' = [pc EXCEPT ![p] = "failed"]
                /\ ret' = [NoRet EXCEPT !.op = "open_spider", !.pipe = p,
                                        !.raised = "SyntaxError"]
                /\ UNCHANGED << collections, nextHandle, stop_on_duplicate >>
           ELSE /\ collections' = [collections EXCEPT ![p] = [n \in {"default"} |-> h]]
                /\ nextHandle' = nextHandle + 1
                /\ IF negative_stop(cfg)
                   THEN /\ pc' = [pc EXCEPT ![p] = "failed"]
                        /\ ret' = [NoRet EXCEPT !.op = "open_spider", !.pipe = p,
                                                !.raised = "SyntaxError"]
                        /\ UNCHANGED stop_on_duplicate
                   ELSE /\ pc' = [pc EXCEPT ![p] = "open"]
                        /\ ret' = [NoRet EXCEPT !.op = "open_spider", !.pipe = p]
                        /\ stop_on_duplicate' =
                             [stop_on_duplicate EXCEPT ![p] =
                                IF Truthy(cfg.stop_on_duplicate)
                                THEN cfg.stop_on_duplicate ELSE IntV(0)]
  /\ issued' = <<>>
  /\ UNCHANGED << cls_item_buffer, item_buffer, current_item, duplicate_key_count,
                  created_index, store, clock, indexLog, stops, rejections, writes,
                  calls, closes, subm, batches >>

(***************************************************************************)
(* The store driver as seen by the pipeline.  A write either succeeds, is  *)
(* rejected with DuplicateKeyError, or fails with another error.  The      *)
(* pipeline never reads the store; `store` follows the documents its       *)
(* upserts leave there, and plain inserts are recorded as issued only.     *)
(***************************************************************************)
Outcomes == {"ok", "dup", "err"}

\* The state one call of process_item / close_spider on instance p works on:
\* the attributes of p, the store, and the record of what the call did.
\* `o` is what the store answers to the at-th write of the call (Ok to the others).
Frame(p, o, at) ==
  [ pipe |-> p, o |-> o, at |-> at, n |-> 0,
    collections |-> collections[p],
    created_index |-> created_index[p],
    duplicate_key_count |-> duplicate_key_count[p],
    store |-> store, nextHandle |-> nextHandle, indexLog |-> indexLog,
    issued |-> <<>>, seen |-> <<>>, raised |-> "none",
    stops |-> stops[p], rejections |-> rejections[p], writes |-> writes[p],
    batches |-> batches[p],
    collection |-> NoHandle, collection_name |-> "" ]

\* The answer of the store to the next write of the call.
Answer(m) == IF m.n + 1 = m.at THEN m.o ELSE "ok"

\* Record a write handed to the driver.
Issue(m, op, docs) ==
  [m EXCEPT !.issued = Append(@, [op |-> op, handle |-> m.collection, docs |-> docs]),
            !.seen = Append(@, Answer(m)),
            !.n = @ + 1,
            !.writes = @ + 1]

(***************************************************************************)
(* get_collection                                                          *)
(***************************************************************************)
needs_index_always(m) == Truthy(config.unique_key)

\* if self.config['unique_key'] and not self.created_index
needs_index(m) == Truthy(config.unique_key) /\ ~ m.created_index

\* self.collections.get(name)
lookup(colls, name) == IF name \in DOMAIN colls THEN colls[name] ELSE NoHandle

get_collection(m, name) ==
  LET sep == Truthy(config.separate_collections)
      cached == lookup(m.collections, name)
      fresh == [id |-> m.nextHandle, name |-> name]
      m1 == IF sep /\ cached = NoHandle
            THEN [m EXCEPT !.collections = (name :> fresh) @@ @,
                           !.nextHandle = @ + 1]
            ELSE m
      collection == IF sep
                    THEN (IF cached = NoHandle THEN fresh ELSE cached)
                    ELSE lookup(m.collections, "default")
      collection_name == IF sep THEN name ELSE config.collection.s
      m2 == [m1 EXCEPT !.collection = collection, !.collection_name = collection_name]
  IN IF needs_index(m2)
     THEN [m2 EXCEPT
             !.issued = Append(@, [op |-> IF config.unique_key.t = "list"
                                          THEN "create_indexes" ELSE "create_index",
                                   handle |-> collection, docs |-> <<>>]),
             !.indexLog = Append(@, [pipe |-> m.pipe, handle |-> collection]),
             !.created_index = TRUE]
     ELSE m2

(***************************************************************************)
(* except errors.DuplicateKeyError: the duplicate circuit breaker          *)
(***************************************************************************)
\* if (self.duplicate_key_count >= self.stop_on_duplicate)
threshold_reached(count, threshold) == count >= threshold

duplicate_key_reraised(m) ==
  [m EXCEPT !.rejections = @ + 1, !.raised = "DuplicateKeyError"]

duplicate_key_counted_always(m) ==
  LET count == m.duplicate_key_count + 1
      threshold == stop_on_duplicate[m.pipe].i
      m2 == [m EXCEPT !.rejections = @ + 1, !.duplicate_key_count = count]
  IN IF threshold_reached(count, threshold)
     THEN [m2 EXCEPT !.stops = @ + 1]
     ELSE m2

duplicate_key_found(m) ==
  LET m1 == [m EXCEPT !.rejections = @ + 1]
      threshold == stop_on_duplicate[m.pipe].i
  IN IF threshold > 0
     THEN LET count == m1.duplicate_key_count + 1
              m2 == [m1 EXCEPT !.duplicate_key_count = count]
          IN IF threshold_reached(count, threshold)
             THEN [m2 EXCEPT !.stops = @ + 1]
             ELSE m2
     ELSE m1

(***************************************************************************)
(* _insert_one                                                             *)
(***************************************************************************)
\* The fields the upsert filters on: set(unique_key), a lone name made a list.
unique_key_fields ==
  IF config.unique_key.t = "list"
  THEN {config.unique_key.l[i] : i \in DOMAIN config.unique_key.l}
  ELSE {config.unique_key.s}

Matches(doc, filter) ==
  \A f \in DOMAIN filter : f \in DOMAIN doc /\ doc[f] = filter[f]

update_one_inserts(docs, filter, item) == Append(docs, item @@ filter)

\* update_one(filter, {'$set': item}, upsert=True) on the documents of a collection
update_one(docs, filter, item) ==
  IF \E i \in DOMAIN docs : Matches(docs[i], filter)
  THEN LET i == CHOOSE j \in DOMAIN docs :
                  /\ Matches(docs[j], filter)
                  /\ \A h \in DOMAIN docs : Matches(docs[h], filter) => j <= h
       IN [docs EXCEPT ![i] = item @@ docs[i]]
  ELSE Append(docs, item @@ filter)

_insert_one(m0, item, name) ==
  LET m == get_collection(m0, name)
      c == m.collection.name
  IN IF config.unique_key = None
     THEN LET a == Answer(m)
              w == Issue(m, "insert_one", <<item>>)
          IN CASE a = "ok"  -> w
               [] a = "dup" -> duplicate_key_found(w)
               [] a = "err" -> [w EXCEPT !.raised = "StoreError"]
     ELSE IF \E f \in unique_key_fields : f \notin DOMAIN item
          THEN [m EXCEPT !.raised = "KeyError"]
          ELSE LET filter == [f \in unique_key_fields |-> item[f]]
                   a == Answer(m)
                   w == Issue(m, "update_one", <<item>>)
               IN CASE a = "ok"  -> [w EXCEPT !.store[c] = update_one(@, filter, item)]
                    [] a = "dup" -> [w EXCEPT !.raised = "DuplicateKeyError"]
                    [] a = "err" -> [w EXCEPT !.raised = "StoreError"]

(***************************************************************************)
(* _insert_many                                                            *)
(***************************************************************************)
RECURSIVE insert_each(_, _, _)
\* for item in items: self._insert_one(item, spider)
insert_each(m, items, name) ==
  IF items = <<>> \/ m.raised # "none"
  THEN m
  ELSE insert_each(_insert_one(m, Head(items), name), Tail(items), name)

_insert_many(m0, items, name) ==
  LET m == get_collection(m0, name)
      c == m.collection.name
  IN IF config.unique_key = None
     THEN LET a == Answer(m)
              w == [Issue(m, "insert_many", items) EXCEPT !.batches = Append(@, items)]
          IN CASE a = "ok"  -> w
               [] a = "dup" -> duplicate_key_found(w)
               [] a = "err" -> [w EXCEPT !.raised = "StoreError"]
     ELSE insert_each(m, items, name)

(***************************************************************************)
(* insert_item                                                             *)
(***************************************************************************)
\* if isinstance(item, list): _insert_many else: _insert_one
insert_item(m, item, name) ==
  IF item.t = "list"
  THEN _insert_many(m, item.l, name)
  ELSE _insert_one(m, item.d, name)

(***************************************************************************)
(* process_item                                                            *)
(***************************************************************************)
\* self.item_buffer: the instance attribute once assigned, else the class list
Buffer(p) == IF item_buffer[p].has THEN item_buffer[p].l ELSE cls_item_buffer

\* if v is not None and v != ""
keeps_field(item, f) == item[f] # None /\ item[f] # Str("")

\* The item as process_item shapes it: empty fields dropped, the timestamp added.
Shape(raw, now) ==
  LET item == [f \in {g \in DOMAIN raw : keeps_field(raw, g)} |-> raw[f]]
  IN IF Truthy(config.append_timestamp)
     THEN ("scrapy-mongodb" :> [t |-> "dict", ts |-> now]) @@ item
     ELSE item

\* The attributes and the store as the call leaves them.
Commit(p, m) ==
  /\ collections' = [collections EXCEPT ![p] = m.collections]
  /\ created_index' = [created_index EXCEPT ![p] = m.created_index]
  /\ duplicate_key_count' = [duplicate_key_count EXCEPT ![p] = m.duplicate_key_count]
  /\ store' = m.store
  /\ nextHandle' = m.nextHandle
  /\ indexLog' = m.indexLog
  /\ issued' = m.issued
  /\ stops' = [stops EXCEPT ![p] = m.stops]
  /\ rejections' = [rejections EXCEPT ![p] = m.rejections]
  /\ writes' = [writes EXCEPT ![p] = m.writes]
  /\ batches' = [batches EXCEPT ![p] = m.batches]

flush_due_late(count) == IntV(count - 1) = config.buffer

\* if self.current_item == self.config['buffer']
flush_due(count) == IntV(count) = config.buffer

buffer_cleared_on_success(p, buf, raised) ==
  IF raised = "none"
  THEN [has |-> TRUE, l |-> <<>>]
  ELSE [has |-> item_buffer[p].has, l |-> IF item_buffer[p].has THEN buf ELSE <<>>]

\* finally: self.item_buffer = []
buffer_after_flush(p, buf, raised) == [has |-> TRUE, l |-> <<>>]

item_buffer_prepend(buf, item) == << item >> \o buf

\* self.item_buffer.append(item)
item_buffer_append(buf, item) == Append(buf, item)

process_item(p, raw, name, o, at) ==
  /\ pc[p] = "open"
  /\ calls[p] < MaxCalls
  /\ LET now == clock + 1
         item == Shape(raw, now)
         m0 == Frame(p, o, at)
     IN /\ clock' = now
        /\ calls' = [calls EXCEPT ![p] = @ + 1]
        /\ subm' = [subm EXCEPT ![p] = Append(@, item)]
        /\ IF Truthy(config.buffer)
           THEN LET count == current_item[p] + 1
                    buf == item_buffer_append(Buffer(p), item)
                IN IF flush_due(count)
                   THEN LET m == insert_item(m0, ListV(buf), name)
                        IN /\ Commit(p, m)
                           /\ current_item' = [current_item EXCEPT ![p] = 0]
                           /\ item_buffer' = [item_buffer EXCEPT ![p] = buffer_after_flush(p, buf, m.raised)]
                           /\ cls_item_buffer' =
                                IF item_buffer[p].has THEN cls_item_buffer ELSE buf
                           /\ ret' = [op |-> "process_item", pipe |-> p, source |-> name,
                                      raised |-> m.raised,
                                      value |-> IF m.raised = "none" THEN DictV(item) ELSE None,
                                      seen |-> m.seen, arg |-> DictV(raw)]
                   ELSE /\ Commit(p, m0)
                        /\ current_item' = [current_item EXCEPT ![p] = count]
                        /\ item_buffer' =
                             IF item_buffer[p].has
                             THEN [item_buffer EXCEPT ![p].l = buf]
                             ELSE item_buffer
                        /\ cls_item_buffer' =
                             IF item_buffer[p].has THEN cls_item_buffer ELSE buf
                        /\ ret' = [op |-> "process_item", pipe |-> p, source |-> name,
                                   raised |-> "none", value |-> DictV(item),
                                   seen |-> <<>>, arg |-> DictV(raw)]
           ELSE LET m == insert_item(m0, DictV(item), name)
                IN /\ Commit(p, m)
                   /\ ret' = [op |-> "process_item", pipe |-> p, source |-> name,
                              raised |-> m.raised,
                              value |-> IF m.raised = "none" THEN DictV(item) ELSE None,
                              seen |-> m.seen, arg |-> DictV(raw)]
                   /\ UNCHANGED << current_item, item_buffer, cls_item_buffer >>
  /\ UNCHANGED << settings, config, stop_on_duplicate, pc, closes >>

(***************************************************************************)
(* close_spider                                                            *)
(***************************************************************************)
has_pending_never(p) == FALSE

\* if self.item_buffer
has_pending(p) == Buffer(p) # <<>>

close_spider(p, name, o, at) ==
  /\ pc[p] \in {"open", "closed"}
  /\ closes[p] < MaxCloses
  /\ LET m0 == Frame(p, o, at)
         m == IF has_pending(p)
              THEN insert_item(m0, ListV(Buffer(p)), name)
              ELSE m0
     IN /\ Commit(p, m)
        /\ ret' = [op |-> "close_spider", pipe |-> p, source |-> name,
                   raised |-> m.raised, value |-> None, seen |-> m.seen, arg |-> None]
  /\ pc' = [pc EXCEPT ![p] = "closed"]
  /\ closes' = [closes EXCEPT ![p] = @ + 1]
  /\ UNCHANGED << settings, config, cls_item_buffer, item_buffer, current_item,
                  stop_on_duplicate, clock, calls, subm >>

(***************************************************************************)
(* One process running one pipeline instance.                              *)
(***************************************************************************)
Open(p) == \E spider_settings \in SettingsSet : open_spider(p, spider_settings)

\* Which write of a call the store answers with `o`: only the one-by-one
\* fallback of _insert_many makes more than one write per call.
FailingWrite == IF Truthy(config.unique_key) THEN 1..MaxBuffer ELSE {1}

Process(p) ==
  \E raw \in Items, name \in Names, o \in Outcomes, at \in FailingWrite :
    process_item(p, raw, name, o, at)

Close(p) ==
  \E name \in Names, o \in Outcomes, at \in FailingWrite :
    close_spider(p, name, o, at)

Next == Open(1) \/ Process(1) \/ Close(1)

Spec == Init /\ [][Next]_vars

(***************************************************************************)
(* One process running two pipeline instances (two crawlers of one         *)
(* CrawlerProcess): the class attributes are shared by both.               *)
(***************************************************************************)
\* The settings of the two crawlers differ in batch size and unique key only.
ProcessSettings ==
  { s \in SettingsSet :
      /\ s["MONGODB_SEPARATE_COLLECTIONS"] = None
      /\ s["MONGODB_ADD_TIMESTAMP"] = None
      /\ s["MONGODB_STOP_ON_DUPLICATE"] = None }

\* Each crawler runs one spider; the engine passes it to every call (spider.name).
spider_name(p) == IF p = 1 THEN "a" ELSE "items"

OpenIn(p) == \E spider_settings \in ProcessSettings : open_spider(p, spider_settings)

ProcessIn(p) ==
  /\ calls[1] + calls[2] < MaxCalls
  /\ \E raw \in Items, o \in Outcomes, at \in FailingWrite :
       process_item(p, raw, spider_name(p), o, at)

CloseIn(p) ==
  /\ closes[1] + closes[2] < MaxCloses
  /\ \E o \in Outcomes, at \in FailingWrite : close_spider(p, spider_name(p), o, at)

NextProcess == \E p \in Pipes : OpenIn(p) \/ ProcessIn(p) \/ CloseIn(p)

SpecProcess == Init /\ [][NextProcess]_vars

(***************************************************************************)
(* Vocabulary of the properties.                                           *)
(***************************************************************************)
WriteOps == {"insert_one", "insert_many", "update_one"}

\* The writes among the store operations of the last call.
IssuedWrites == SelectSeq(issued, LAMBDA e : e.op \in WriteOps)

\* Instance p runs in batch mode without a unique key.
PlainBatch(p) ==
  pc[p] \in {"open", "closed"} /\ Truthy(config.buffer) /\ config.unique_key = None

\* The records p was given since its last full batch, from the record of submissions.
Pending(p) ==
  LET r == calls[p] % config.buffer.i
  IN SubSeq(subm[p], calls[p] - r + 1, calls[p])

(***************************************************************************)
(* C1: with batch size N > 0 and no unique key, the first N - 1 calls of   *)
(* process_item issue no write; after exactly N calls exactly one          *)
(* insert_many has been issued, holding the N shaped records in arrival    *)
(* order, and the buffer is empty and the running count is 0.              *)
(***************************************************************************)
C1_OneBatchAfterN ==
  \A p \in Pipes :
    (pc[p] = "open" /\ PlainBatch(p)) =>
      /\ calls[p] < config.buffer.i =>
           writes[p] = 0 /\ batches[p] = <<>>
      /\ calls[p] = config.buffer.i =>
           /\ batches[p] = << subm[p] >>
           /\ writes[p] = 1
           /\ Buffer(p) = <<>>
           /\ current_item[p] = 0

C1_Witness ==
  \E p \in Pipes :
    /\ pc[p] = "open" /\ PlainBatch(p)
    /\ config.buffer = IntV(2) /\ calls[p] = 2
    /\ batches[p] = << subm[p] >>
    /\ subm[p][1] # subm[p][2]
    /\ Buffer(p) = <<>>

C3_StopSignalExactlyOnce ==
  \A p \in Pipes :
    (/\ pc[p] \in {"open", "closed"}
     /\ stop_on_duplicate[p].i > 0
     /\ config.unique_key = None) =>
      stops[p] = IF rejections[p] >= stop_on_duplicate[p].i THEN 1 ELSE 0

(***************************************************************************)
(* C4: without a unique key a duplicate-key rejection of insert_one or     *)
(* insert_many never leaves process_item or close_spider: the call         *)
(* completes, process_item returns the shaped record, and the records      *)
(* submitted afterwards are written or buffered as they would have been    *)
(* without the rejection.                                                  *)
(***************************************************************************)
C4_DuplicateNotPropagated ==
  /\ (/\ ret.op \in {"process_item", "close_spider"}
      /\ config.unique_key = None
      /\ \E i \in DOMAIN ret.seen : ret.seen[i] = "dup") =>
       /\ ret.raised = "none"
       /\ ret.op = "process_item" =>
            /\ ret.value = DictV(Shape(ret.arg.d, clock))
            /\ pc[ret.pipe] = "open"
  /\ \A p \in Pipes :
       (pc[p] = "open" /\ config.unique_key = None /\ rejections[p] > 0) =>
         IF Truthy(config.buffer)
         THEN Buffer(p) = Pending(p) /\ current_item[p] = Len(Pending(p))
         ELSE (ret.op = "process_item" /\ ret.pipe = p) =>
                /\ Len(IssuedWrites) = 1
                /\ IssuedWrites[1].op = "insert_one"
                /\ IssuedWrites[1].docs = << subm[p][Len(subm[p])] >>

C4_Witness ==
  /\ ret.op = "process_item"
  /\ config.unique_key = None
  /\ ret.seen = << "dup" >>
  /\ ret.raised = "none"
  /\ rejections[ret.pipe] = 2
  /\ ret.value = DictV(subm[ret.pipe][Len(subm[ret.pipe])])

(***************************************************************************)
(* C5: in batch mode, once the count reaches N the buffer is emptied and   *)
(* the count reset to 0 whatever the batch write did (success, duplicate   *)
(* key, or an error that propagates), and the next record starts a new     *)
(* batch of size 1.                                                        *)
(***************************************************************************)
C5_BufferClearedAfterFlush ==
  \A p \in Pipes :
    (pc[p] = "open" /\ Truthy(config.buffer)) =>
      /\ (calls[p] > 0 /\ calls[p] % config.buffer.i = 0) =>
           Buffer(p) = <<>> /\ current_item[p] = 0
      /\ (config.buffer.i > 1 /\ calls[p] > config.buffer.i
                              /\ calls[p] % config.buffer.i = 1) =>
           Buffer(p) = << subm[p][Len(subm[p])] >> /\ current_item[p] = 1
      /\ (config.buffer.i = 1 /\ calls[p] > 1 /\ config.unique_key = None) =>
           batches[p][Len(batches[p])] = << subm[p][Len(subm[p])] >>

C5_Witness ==
  /\ ret.op = "process_item"
  /\ pc[ret.pipe] = "open"
  /\ config.buffer = IntV(2)
  /\ calls[ret.pipe] = 2
  /\ ret.raised = "StoreError"
  /\ Buffer(ret.pipe) = <<>>
  /\ current_item[ret.pipe] = 0

(***************************************************************************)
(* C6: in unique-key mode the uniqueness index has been created on a       *)
(* collection handle before the first upsert to that handle, for every     *)
(* handle the router returns.                                              *)
(***************************************************************************)
C6_IndexBeforeFirstWrite ==
  \A i \in DOMAIN issued :
    issued[i].op = "update_one" =>
      \E j \in DOMAIN indexLog : indexLog[j].handle = issued[i].handle

C8_WrittenToCollectionNamedAsSource ==
  (Truthy(config.separate_collections) /\ ret.op \in {"process_item", "close_spider"}) =>
    \A i \in DOMAIN issued :
      issued[i].op \in WriteOps => issued[i].handle.name = ret.source

(***************************************************************************)
(* C9: the router never holds more than one handle for the same            *)
(* collection name.                                                        *)
(***************************************************************************)
C9_OneHandlePerCollection ==
  \A p \in Pipes :
    \A a, b \in DOMAIN collections[p] :
      collections[p][a].name = collections[p][b].name => a = b

(***************************************************************************)
(* C10: opening a pipeline whose settings set both a batch size and a      *)
(* unique key, or a negative duplicate threshold, fails with a             *)
(* configuration error in open_spider, and that pipeline never issues a    *)
(* write.                                                                  *)
(***************************************************************************)
RejectedSettings(st) ==
  \/ Truthy(st["MONGODB_BUFFER_DATA"]) /\ Truthy(st["MONGODB_UNIQUE_KEY"])
  \/ st["MONGODB_STOP_ON_DUPLICATE"] # None /\ st["MONGODB_STOP_ON_DUPLICATE"].i < 0

C10_IllegalSettingsRejected ==
  /\ \A p \in Pipes :
       (pc[p] # "new" /\ RejectedSettings(settings[p])) =>
         pc[p] = "failed" /\ writes[p] = 0
  /\ (ret.op = "open_spider" /\ RejectedSettings(settings[ret.pipe])) =>
       ret.raised = "SyntaxError" /\ issued = <<>>

C10_Witness ==
  \E p \in Pipes :
    /\ pc[p] = "failed"
    /\ Truthy(settings[p]["MONGODB_BUFFER_DATA"])
    /\ Truthy(settings[p]["MONGODB_UNIQUE_KEY"])
    /\ ret.raised = "SyntaxError"

(***************************************************************************)
(* C11: once open_spider has completed on a pipeline, the configuration    *)
(* that pipeline reads never changes while it runs, whatever happens       *)
(* afterwards, the open (successful or not) of another instance in the     *)
(* same process included; a running pipeline never reads both a batch      *)
(* size and a unique key.                                                  *)
(***************************************************************************)
C11_ConfigFixedAfterOpen ==
  /\ [](\A p \in Pipes :
          pc[p] = "open" => ~ (Truthy(config.buffer) /\ Truthy(config.unique_key)))
  /\ [][(\E p \in Pipes : pc[p] = "open") => config' = config]_vars

(***************************************************************************)
(* C12: after every open, each option whose setting is None or '' holds    *)
(* its default value in the resolved configuration, in the first open of   *)
(* a process and in every later one.                                       *)
(***************************************************************************)
C12_UnsetOptionsHoldDefault ==
  ret.op = "open_spider" =>
    \A key \in DOMAIN options :
      not_set(settings[ret.pipe][options[key]]) => config[key] = DefaultConfig[key]

(***************************************************************************)
(* C13: in unique-key mode a collection holds exactly one document for     *)
(* each value of the unique-key fields: an upsert of a record whose key is *)
(* already stored adds no document, leaves the key fields and the fields   *)
(* the record lacks as they were and sets the record's fields; an upsert   *)
(* of a record the store already holds leaves the store as it is.          *)
(***************************************************************************)
\* The value a document has for the unique-key fields.
KeyOf(doc) == [f \in unique_key_fields |-> doc[f]]

\* The last call was a process_item whose upsert the store accepted.
Upserted ==
  /\ ret.op = "process_item" /\ ret.raised = "none"
  /\ Truthy(config.unique_key)
  /\ Len(IssuedWrites) = 1 /\ IssuedWrites[1].op = "update_one"

UpsertedItem == IssuedWrites[1].docs[1]

UpsertedInto == IssuedWrites[1].handle.name

\* item is part of doc: every field of item is in doc with the same value.
Holds(doc, item) == \A f \in DOMAIN item : f \in DOMAIN doc /\ doc[f] = item[f]

C13_OneDocumentPerKey ==
  /\ Truthy(config.unique_key) =>
       \A c \in CollNames : \A i, j \in DOMAIN store[c] :
         KeyOf(store[c][i]) = KeyOf(store[c][j]) => i = j
  /\ Upserted =>
       LET docs == store[UpsertedInto]
       IN /\ \E i \in DOMAIN docs :
               /\ KeyOf(docs[i]) = KeyOf(UpsertedItem)
               /\ Holds(docs[i], UpsertedItem)
          /\ update_one(docs, KeyOf(UpsertedItem), UpsertedItem) = docs

C13_UpsertStep ==
  Upserted' =>
    LET item == UpsertedItem'
        c == UpsertedInto'
        old == store[c]
        new == store'[c]
    IN /\ \A other \in CollNames \ {c} : store'[other] = store[other]
       /\ IF \E i \in DOMAIN old : KeyOf(old[i]) = KeyOf(item)
          THEN /\ Len(new) = Len(old)
               /\ \A i \in DOMAIN old :
                    IF KeyOf(old[i]) = KeyOf(item)
                    THEN /\ KeyOf(new[i]) = KeyOf(old[i])
                         /\ Holds(new[i], item)
                         /\ \A f \in DOMAIN old[i] \ DOMAIN item :
                              f \in DOMAIN new[i] /\ new[i][f] = old[i][f]
                         /\ DOMAIN new[i] = DOMAIN old[i] \cup DOMAIN item
                         /\ Holds(old[i], item) => store' = store
                    ELSE new[i] = old[i]
          ELSE new = Append(old, item)

C13_UpsertIdempotent == []C13_OneDocumentPerKey /\ [][C13_UpsertStep]_vars

\* Two different records with the same key were upserted and one document is stored,
\* holding the second record's fields and the field only the first one had.
C13_Witness ==
  /\ Upserted
  /\ calls[ret.pipe] = 2 /\ writes[ret.pipe] = 2
  /\ subm[ret.pipe][1] # subm[ret.pipe][2]
  /\ UpsertedItem = subm[ret.pipe][2]
  /\ Len(store[UpsertedInto]) = 1
  /\ Holds(store[UpsertedInto][1], subm[ret.pipe][2])
  /\ "w" \in DOMAIN store[UpsertedInto][1]
  /\ "w" \notin DOMAIN subm[ret.pipe][2]
  /\ store[UpsertedInto][1]["w"] = subm[ret.pipe][1]["w"]

(***************************************************************************)
(* C14: whenever the store raises nothing but duplicate-key rejections,    *)
(* process_item returns the shaped record (the fields that are None or ''  *)
(* removed, the timestamp added when configured), in direct, batch and     *)
(* unique-key mode, whether the write happened or is deferred, also for a  *)
(* record whose unique-key field is empty or absent.                       *)
(***************************************************************************)
C14_ReturnsShapedRecord ==
  (/\ ret.op = "process_item"
   /\ \A i \in DOMAIN ret.seen : ret.seen[i] # "err") =>
    /\ ret.raised = "none"
    /\ ret.value = DictV(Shape(ret.arg.d, clock))

(***************************************************************************)
(* C15: with duplicate threshold 0 the stop signal                         *)
(* (crawler.engine.close_spider) is never issued, however many             *)
(* duplicate-key rejections insert_one and insert_many meet and whatever   *)
(* the sequence of process_item and close_spider calls.                    *)
(***************************************************************************)
C15_NoStopWhenDisabled ==
  \A p \in Pipes :
    (pc[p] \in {"open", "closed"} /\ stop_on_duplicate[p] = IntV(0)) =>
      stops[p] = 0 /\ duplicate_key_count[p] = 0

\* A third rejection in a row passes without a stop signal.
C15_Witness ==
  /\ ret.op \in {"process_item", "close_spider"}
  /\ stop_on_duplicate[ret.pipe] = IntV(0)
  /\ ret.seen = << "dup" >>
  /\ ret.raised = "none"
  /\ rejections[ret.pipe] = 3
  /\ stops[ret.pipe] = 0

(***************************************************************************)
(* C16: the duplicate counter of a pipeline is never decreased or reset;   *)
(* it changes only in a call in which the store rejects a write with a     *)
(* duplicate key, and then by exactly 1, and with threshold K > 0 every    *)
(* such call counts, so the counter equals the number of duplicate-key     *)
(* rejections of the run.                                                  *)
(***************************************************************************)
\* The step is a call of p in which the store rejected a write with a duplicate key.
RejectedIn(p) ==
  /\ writes'[p] # writes[p]
  /\ ret'.pipe = p
  /\ \E i \in DOMAIN ret'.seen : ret'.seen[i] = "dup"

C16_CounterStep ==
  \A p \in Pipes :
    /\ duplicate_key_count'[p] # duplicate_key_count[p] =>
         RejectedIn(p) /\ duplicate_key_count'[p] = duplicate_key_count[p] + 1
    /\ (pc[p] \in {"open", "closed"} /\ stop_on_duplicate[p].i > 0 /\ RejectedIn(p)) =>
         duplicate_key_count'[p] = duplicate_key_count[p] + 1

C16_CounterCountsRejections == [][C16_CounterStep]_vars

(***************************************************************************)
(* C17: the buffer is empty after the shutdown flush of close_spider as    *)
(* after every flush, and the pending records are written once: a          *)
(* close_spider that follows a shutdown flush issues no write.             *)
(***************************************************************************)
C17_ShutdownFlushOnce ==
  ret.op = "close_spider" =>
    /\ Buffer(ret.pipe) = <<>>
    /\ closes[ret.pipe] > 1 => IssuedWrites = <<>>

(***************************************************************************)
(* C18: once the duplicate circuit breaker has tripped (counter >=         *)
(* threshold > 0, stop signal issued) the pipeline does not resume: no     *)
(* later process_item or close_spider issues a write to the store or       *)
(* another stop signal.                                                    *)
(***************************************************************************)
Tripped(p) ==
  /\ pc[p] \in {"open", "closed"}
  /\ stop_on_duplicate[p].i > 0
  /\ duplicate_key_count[p] >= stop_on_duplicate[p].i
  /\ stops[p] > 0

C18_TrippedIsTerminal ==
  [][\A p \in Pipes :
       Tripped(p) => writes'[p] = writes[p] /\ stops'[p] = stops[p]]_vars

(***************************************************************************)
(* C19: with two pipeline instances in one process, both in batch mode, a  *)
(* batch an instance hands to the store holds only records submitted to    *)
(* that instance, and at most N of them, for every interleaving of the     *)
(* instances' open_spider, process_item and close_spider calls.            *)
(***************************************************************************)
\* Both instances were opened with a batch size.
BothBatching ==
  \A p \in Pipes :
    pc[p] \in {"open", "closed"} /\ Truthy(settings[p]["MONGODB_BUFFER_DATA"])

C19_BuffersIsolated ==
  BothBatching =>
    \A p \in Pipes : \A i \in DOMAIN batches[p] :
      /\ Len(batches[p][i]) <= settings[p]["MONGODB_BUFFER_DATA"].i
      /\ \A j \in DOMAIN batches[p][i] :
           \E k \in DOMAIN subm[p] : subm[p][k] = batches[p][i][j]

(***************************************************************************)
(* C20: in batch mode on a single pipeline no record is lost, duplicated   *)
(* or reordered: between calls the batches handed to the store so far,     *)
(* concatenated, followed by the buffer are the shaped records submitted   *)
(* so far; the buffer is as long as the running count says and shorter     *)
(* than N; and after one close_spider every submitted record has been      *)
(* handed to the store in exactly one batch.                               *)
(***************************************************************************)
RECURSIVE Flatten(_)
\* The concatenation of a sequence of batches.
Flatten(bs) == IF bs = <<>> THEN <<>> ELSE Head(bs) \o Flatten(Tail(bs))

C20_NoRecordLostOrReordered ==
  \A p \in Pipes :
    /\ (pc[p] = "open" /\ PlainBatch(p)) =>
         /\ Flatten(batches[p]) \o Buffer(p) = subm[p]
         /\ Len(Buffer(p)) = current_item[p]
         /\ current_item[p] < config.buffer.i
    /\ (pc[p] = "closed" /\ PlainBatch(p) /\ closes[p] = 1) =>
         Flatten(batches[p]) = subm[p]

\* Three records with batch size 2, then one close: a full batch and the rest.
C20_Witness ==
  \E p \in Pipes :
    /\ pc[p] = "closed" /\ PlainBatch(p) /\ closes[p] = 1
    /\ config.buffer = IntV(2)
    /\ calls[p] = 3
    /\ Len(batches[p]) = 2
    /\ batches[p][1] = SubSeq(subm[p], 1, 2)
    /\ batches[p][2] = << subm[p][3] >>
    /\ subm[p][1] # subm[p][2]

====
